---- MODULE Spec2Model ----
(***************************************************************************)
(* Model of desafio_poo.py: an in-memory bank driven by a text menu.       *)
(*                                                                         *)
(* The program state is the two lists of main() (clientes, contas) and the *)
(* account objects they reference.  Account objects live in `objetos`, in  *)
(* allocation order; a reference is an index into it (0 is None).  A       *)
(* customer object is identified by its position in `clientes`, which is   *)
(* stable because the program never removes from that list.                *)
(*                                                                         *)
(* Amounts are Python floats.  They are modelled as exact integers plus    *)
(* the value NaN, which float() also produces; comparisons go through GT,  *)
(* which is false whenever an operand is NaN, as in Python.  Rounding and  *)
(* infinities are outside the model.  The "data" field of a history entry  *)
(* (wall-clock text, only printed) and the free-text customer fields nome, *)
(* data_nascimento and endereco are not represented.                       *)
(***************************************************************************)
EXTENDS Integers, Sequences, FiniteSets, TLC

VARIABLES
    clientes,   \* main's list of customers: [cpf, contas (references)]
    contas,     \* main's list of accounts (references)
    objetos,    \* the ContaCorrente objects, by reference
    pc,         \* where main is: "menu", "escolha" (the choice prompt) or "fim"
    ultima,     \* the action in progress or last finished, and what it printed
    aplicadas   \* per account, the transactions whose sacar/depositar returned True

vars == <<clientes, contas, objetos, pc, ultima, aplicadas>>

(* ------------------------------ bounds -------------------------------- *)

\* accounts that may be opened in one run
MaxContas == 2

\* successful transactions (history entries) in a run with a single account
MaxTransacoes == 5

\* successful transactions over all accounts in a run with several accounts
MaxTransacoesVarias == 3

\* identifiers the operator may type
CPFs == {"111", "222"}

\* texts the operator may type at the prompt for the amount of a deposit
EntradasDeposito == {"-100", "0", "600", "nan", "abc"}

\* texts the operator may type at the prompt for the amount of a withdrawal
EntradasSaque == {"-100", "0", "100", "500", "600", "nan", "abc"}

\* texts the operator may type at the account-choice prompt
EntradasEscolha == {"0", "1", "2", "3", "x"}

(* --------------------------- input conversion -------------------------- *)

\* the float that is not a number
NaN == -999

\* float(text): <<v>> when the text parses, <<>> when it raises ValueError
float(texto) ==
    CASE texto = "-100" -> <<-100>>
      [] texto = "0"    -> <<0>>
      [] texto = "100"  -> <<100>>
      [] texto = "500"  -> <<500>>
      [] texto = "600"  -> <<600>>
      [] texto = "nan"  -> <<NaN>>
      [] OTHER          -> <<>>

\* int(text): <<n>> when the text parses, <<>> when it raises ValueError
int(texto) ==
    CASE texto = "0" -> <<0>>
      [] texto = "1" -> <<1>>
      [] texto = "2" -> <<2>>
      [] texto = "3" -> <<3>>
      [] OTHER       -> <<>>

\* a > b on floats: false when either operand is NaN
GT(a, b) == a # NaN /\ b # NaN /\ a > b

(* ------------------------------ messages ------------------------------- *)

MsgSaldoInsuficiente == "Operacao falhou! Voce nao tem saldo suficiente."
MsgSaqueOk           == "Saque realizado com sucesso!"
MsgValorInvalido     == "Operacao falhou! O valor informado e invalido."
MsgDepositoOk        == "Deposito realizado com sucesso!"
MsgExcedeLimite      == "Operacao falhou! O valor do saque excede o limite."
MsgExcedeSaques      == "Operacao falhou! Numero maximo de saques excedido."
MsgSemConta          == "Cliente nao possui conta!"
MsgEscolha           == "O cliente possui mais de uma conta. Por favor, escolha uma:"
MsgOpcaoInvalida     == "Opcao invalida. Por favor, escolha um numero da lista."
MsgEntradaInvalida   == "Entrada invalida. Por favor, digite um numero."
MsgNaoEncontrado     == "Cliente nao encontrado!"
MsgDepositoCancelado == "Valor invalido! A operacao de deposito foi cancelada."
MsgSaqueCancelado    == "Valor invalido! A operacao de saque foi cancelada."
MsgExtrato           == "EXTRATO"
MsgJaExiste          == "Ja existe cliente com esse CPF!"
MsgClienteCriado     == "Cliente criado com sucesso!"
MsgContaNaoCriada    == "Cliente nao encontrado. Por favor, crie um novo usuario antes de criar uma conta."
MsgContaCriada       == "Conta criada com sucesso!"
MsgNenhumaConta      == "Nenhuma conta foi criada ainda."
MsgLista             == "lista de contas"
MsgSaindo            == "Saindo do sistema... Obrigado por usar nosso banco!"
MsgOperacaoInvalida  == "Operacao invalida, por favor selecione novamente a operacao desejada."

(* ------------------------------ Historico ------------------------------ *)

\* Historico.__init__
Historico_init == <<>>

\* Historico.adicionar_transacao with the entry inserted at the front
Historico_adicionar_transacao_no_inicio(transacoes, tipo, valor) ==
    <<[tipo |-> tipo, valor |-> valor]>> \o transacoes

\* Historico.adicionar_transacao: one entry appended at the end
Historico_adicionar_transacao(transacoes, tipo, valor) ==
    Append(transacoes, [tipo |-> tipo, valor |-> valor])

(* -------------------------------- Conta -------------------------------- *)

\* default per-withdrawal limit of ContaCorrente
limite == 500

\* default number of withdrawals of ContaCorrente
limite_saques == 3

\* Conta.__init__
Conta_init(numero, cliente) ==
    [saldo |-> 0, numero |-> numero, agencia |-> "0001",
     cliente |-> cliente, historico |-> Historico_init]

\* ContaCorrente.__init__ with its default arguments
ContaCorrente_init(numero, cliente) ==
    [saldo          |-> Conta_init(numero, cliente).saldo,
     numero         |-> Conta_init(numero, cliente).numero,
     agencia        |-> Conta_init(numero, cliente).agencia,
     cliente        |-> Conta_init(numero, cliente).cliente,
     historico      |-> Conta_init(numero, cliente).historico,
     _limite        |-> limite,
     _limite_saques |-> limite_saques]

\* Conta.sacar with "valor >= saldo" for "valor > saldo"
Conta_sacar_saldo_igual(conta, valor) ==
    LET saldo         == conta.saldo
        excedeu_saldo == GT(valor, saldo) \/ valor = saldo
    IN  IF excedeu_saldo
        THEN [conta |-> conta, retorno |-> FALSE, msg |-> MsgSaldoInsuficiente]
        ELSE IF GT(valor, 0)
        THEN [conta   |-> [conta EXCEPT !.saldo = @ - valor],
              retorno |-> TRUE, msg |-> MsgSaqueOk]
        ELSE [conta |-> conta, retorno |-> FALSE, msg |-> MsgValorInvalido]

\* Conta.sacar without the "return True" of its success branch
Conta_sacar_retorna_falso(conta, valor) ==
    IF GT(valor, conta.saldo)
    THEN [conta |-> conta, retorno |-> FALSE, msg |-> MsgSaldoInsuficiente]
    ELSE IF GT(valor, 0)
    THEN [conta   |-> [conta EXCEPT !.saldo = @ - valor],
          retorno |-> FALSE, msg |-> MsgSaqueOk]
    ELSE [conta |-> conta, retorno |-> FALSE, msg |-> MsgValorInvalido]

\* Conta.sacar without the comparison of the amount with the balance
Conta_sacar_sem_saldo(conta, valor) ==
    IF GT(valor, 0)
    THEN [conta   |-> [conta EXCEPT !.saldo = @ - valor],
          retorno |-> TRUE, msg |-> MsgSaqueOk]
    ELSE [conta |-> conta, retorno |-> FALSE, msg |-> MsgValorInvalido]

\* Conta.sacar: the account after the call, the value returned, the message
Conta_sacar(conta, valor) ==
    LET saldo         == conta.saldo
        excedeu_saldo == GT(valor, saldo)
    IN  IF excedeu_saldo
        THEN [conta |-> conta, retorno |-> FALSE, msg |-> MsgSaldoInsuficiente]
        ELSE IF GT(valor, 0)
        THEN [conta   |-> [conta EXCEPT !.saldo = @ - valor],
              retorno |-> TRUE, msg |-> MsgSaqueOk]
        ELSE [conta |-> conta, retorno |-> FALSE, msg |-> MsgValorInvalido]

\* Conta.depositar refusing an amount above the limit of withdrawals
Conta_depositar_com_limite(conta, valor) ==
    IF GT(valor, 0) /\ ~GT(valor, conta._limite)
    THEN [conta   |-> [conta EXCEPT !.saldo = @ + valor],
          retorno |-> TRUE, msg |-> MsgDepositoOk]
    ELSE [conta |-> conta, retorno |-> FALSE, msg |-> MsgValorInvalido]

\* Conta.depositar with "valor >= 0" for "valor > 0"
Conta_depositar_zero(conta, valor) ==
    IF GT(valor, 0) \/ valor = 0
    THEN [conta   |-> [conta EXCEPT !.saldo = @ + valor],
          retorno |-> TRUE, msg |-> MsgDepositoOk]
    ELSE [conta |-> conta, retorno |-> FALSE, msg |-> MsgValorInvalido]

\* Conta.depositar
Conta_depositar(conta, valor) ==
    IF GT(valor, 0)
    THEN [conta   |-> [conta EXCEPT !.saldo = @ + valor],
          retorno |-> TRUE, msg |-> MsgDepositoOk]
    ELSE [conta |-> conta, retorno |-> FALSE, msg |-> MsgValorInvalido]

\* the list comprehension of ContaCorrente.sacar without its filter on the kind
Saques_todas(transacoes) == transacoes

\* the history entries of kind Saque (the list comprehension of ContaCorrente.sacar)
Saques(transacoes) ==
    SelectSeq(transacoes, LAMBDA transacao : transacao.tipo = "Saque")

\* ContaCorrente.sacar with the rule of Conta.sacar tried before its own checks
ContaCorrente_sacar_base_primeiro(conta, valor) ==
    LET base == Conta_sacar(conta, valor)
    IN  IF ~base.retorno
        THEN base
        ELSE IF GT(valor, conta._limite)
        THEN [conta |-> conta, retorno |-> FALSE, msg |-> MsgExcedeLimite]
        ELSE IF Len(Saques(conta.historico)) >= conta._limite_saques
        THEN [conta |-> conta, retorno |-> FALSE, msg |-> MsgExcedeSaques]
        ELSE base

\* ContaCorrente.sacar with "numero_saques > limite_saques" for ">="
ContaCorrente_sacar_um_a_mais(conta, valor) ==
    IF GT(valor, conta._limite)
    THEN [conta |-> conta, retorno |-> FALSE, msg |-> MsgExcedeLimite]
    ELSE IF Len(Saques(conta.historico)) > conta._limite_saques
    THEN [conta |-> conta, retorno |-> FALSE, msg |-> MsgExcedeSaques]
    ELSE Conta_sacar(conta, valor)

\* ContaCorrente.sacar without the check of the per-withdrawal limit
ContaCorrente_sacar_sem_limite(conta, valor) ==
    IF Len(Saques(conta.historico)) >= conta._limite_saques
    THEN [conta |-> conta, retorno |-> FALSE, msg |-> MsgExcedeSaques]
    ELSE Conta_sacar(conta, valor)

\* ContaCorrente.sacar with its two checks in the other order
ContaCorrente_sacar_saques_primeiro(conta, valor) ==
    IF Len(Saques(conta.historico)) >= conta._limite_saques
    THEN [conta |-> conta, retorno |-> FALSE, msg |-> MsgExcedeSaques]
    ELSE IF GT(valor, conta._limite)
    THEN [conta |-> conta, retorno |-> FALSE, msg |-> MsgExcedeLimite]
    ELSE Conta_sacar(conta, valor)

\* ContaCorrente.sacar
ContaCorrente_sacar(conta, valor) ==
    LET numero_saques  == Len(Saques(conta.historico))
        excedeu_limite == GT(valor, conta._limite)
        excedeu_saques == numero_saques >= conta._limite_saques
    IN  IF excedeu_limite
        THEN [conta |-> conta, retorno |-> FALSE, msg |-> MsgExcedeLimite]
        ELSE IF excedeu_saques
        THEN [conta |-> conta, retorno |-> FALSE, msg |-> MsgExcedeSaques]
        ELSE Conta_sacar(conta, valor)

(* ------------------------------ Transacao ------------------------------ *)

\* Saque.registrar without the test of sucesso_transacao
Saque_registrar_sempre(conta, valor) ==
    [ContaCorrente_sacar(conta, valor) EXCEPT !.conta.historico =
         Historico_adicionar_transacao(@, "Saque", valor)]

\* Saque.registrar
Saque_registrar(conta, valor) ==
    LET sucesso_transacao == ContaCorrente_sacar(conta, valor)
    IN  IF sucesso_transacao.retorno
        THEN [sucesso_transacao EXCEPT !.conta.historico =
                  Historico_adicionar_transacao(@, "Saque", valor)]
        ELSE sucesso_transacao

\* Deposito.registrar
Deposito_registrar(conta, valor) ==
    LET sucesso_transacao == Conta_depositar(conta, valor)
    IN  IF sucesso_transacao.retorno
        THEN [sucesso_transacao EXCEPT !.conta.historico =
                  Historico_adicionar_transacao(@, "Deposito", valor)]
        ELSE sucesso_transacao

(* ------------------------------- Cliente ------------------------------- *)

\* PessoaFisica.__init__
PessoaFisica_init(cpf) == [cpf |-> cpf, contas |-> <<>>]

\* Cliente.adicionar_conta without the append
Cliente_adicionar_conta_esquece(cliente, ref) == cliente

\* Cliente.adicionar_conta
Cliente_adicionar_conta(cliente, ref) ==
    [cliente EXCEPT !.contas = Append(@, ref)]

\* Cliente.realizar_transacao: transacao.registrar(conta), by kind of transacao
Cliente_realizar_transacao(conta, tipo, valor) ==
    IF tipo = "Saque" THEN Saque_registrar(conta, valor)
                      ELSE Deposito_registrar(conta, valor)

(* ------------------------------ functions ------------------------------ *)

\* filtrar_cliente: position of the first customer with that cpf, 0 for None
filtrar_cliente(cpf, lista) ==
    LET clientes_filtrados == {i \in 1..Len(lista) : lista[i].cpf = cpf}
    IN  IF clientes_filtrados # {}
        THEN CHOOSE i \in clientes_filtrados : \A j \in clientes_filtrados : i <= j
        ELSE 0

\* the account number without the "+ 1"
numero_conta_sem_incremento(lista) == Len(lista)

\* the account number main() passes to criar_conta
numero_conta(lista) == Len(lista) + 1

\* history entries over all accounts
RECURSIVE TotalTransacoes(_, _)
TotalTransacoes(objs, n) ==
    IF n = 0 THEN 0 ELSE Len(objs[n].historico) + TotalTransacoes(objs, n - 1)

\* the runs explored: the accounts hold no more history than the bounds allow
DentroDosLimites(objs) ==
    TotalTransacoes(objs, Len(objs)) <=
        (IF Len(objs) <= 1 THEN MaxTransacoes ELSE MaxTransacoesVarias)

\* the record of the action in progress or last finished: the menu option, the
\* customer and the account it resolved (0 for None), the amount it parsed
\* (<<>> for none), what the account method returned and the last message printed
Ultima(opcao, cliente, conta, valor, retorno, msg) ==
    [opcao |-> opcao, cliente |-> cliente, conta |-> conta,
     valor |-> valor, retorno |-> retorno, msg |-> msg]

(* -------------------------------- Init --------------------------------- *)

Init ==
    /\ clientes  = <<>>
    /\ contas    = <<>>
    /\ objetos   = <<>>
    /\ aplicadas = <<>>
    /\ pc        = "menu"
    /\ ultima    = Ultima("", 0, 0, <<>>, FALSE, "")

(* ------------------------------- actions ------------------------------- *)

\* the transaction reaches the account: cliente.realizar_transacao(conta, transacao)
realizar(opcao, cliente, ref, tipo, valor) ==
    LET r == Cliente_realizar_transacao(objetos[ref], tipo, valor)
    IN  /\ objetos' = [objetos EXCEPT ![ref] = r.conta]
        /\ aplicadas' = IF r.retorno
                        THEN [aplicadas EXCEPT ![ref] =
                                  Append(@, [tipo |-> tipo, valor |-> valor])]
                        ELSE aplicadas
        /\ ultima' = Ultima(opcao, cliente, ref, <<valor>>, r.retorno, r.msg)
        /\ pc' = "menu"
        /\ DentroDosLimites(objetos')
        /\ UNCHANGED <<clientes, contas>>

\* an action that ends by leaving the loop of main
termina_encerra(opcao, cliente, valor, msg) ==
    /\ ultima' = Ultima(opcao, cliente, 0, valor, FALSE, msg)
    /\ pc' = "fim"
    /\ UNCHANGED <<clientes, contas, objetos, aplicadas>>

\* the action ends with a message and no change to customers or accounts
termina(opcao, cliente, valor, msg) ==
    /\ ultima' = Ultima(opcao, cliente, 0, valor, FALSE, msg)
    /\ pc' = "menu"
    /\ UNCHANGED <<clientes, contas, objetos, aplicadas>>

\* the action goes on at the choice prompt of recuperar_conta_cliente, holding
\* the customer it found and the amount it has read
pergunta(opcao, cliente, valor) ==
    /\ ultima' = Ultima(opcao, cliente, 0, valor, FALSE, MsgEscolha)
    /\ pc' = "escolha"
    /\ UNCHANGED <<clientes, contas, objetos, aplicadas>>

\* depositar: menu option d
depositar(cpf, texto) ==
    LET cliente == filtrar_cliente(cpf, clientes)
        valor   == float(texto)
    IN  /\ pc = "menu"
        /\ IF cliente = 0
           THEN termina("d", 0, <<>>, MsgNaoEncontrado)
           ELSE IF valor = <<>>
           THEN termina("d", cliente, <<>>, MsgDepositoCancelado)
           ELSE IF clientes[cliente].contas = <<>>
           THEN termina("d", cliente, valor, MsgSemConta)
           ELSE IF Len(clientes[cliente].contas) = 1
           THEN realizar("d", cliente, clientes[cliente].contas[1], "Deposito", valor[1])
           ELSE pergunta("d", cliente, valor)

\* sacar: menu option s
sacar(cpf, texto) ==
    LET cliente == filtrar_cliente(cpf, clientes)
        valor   == float(texto)
    IN  /\ pc = "menu"
        /\ IF cliente = 0
           THEN termina("s", 0, <<>>, MsgNaoEncontrado)
           ELSE IF valor = <<>>
           THEN termina("s", cliente, <<>>, MsgSaqueCancelado)
           ELSE IF clientes[cliente].contas = <<>>
           THEN termina("s", cliente, valor, MsgSemConta)
           ELSE IF Len(clientes[cliente].contas) = 1
           THEN realizar("s", cliente, clientes[cliente].contas[1], "Saque", valor[1])
           ELSE pergunta("s", cliente, valor)

\* the statement of an account is printed
extrato(cliente, ref) ==
    /\ ultima' = Ultima("e", cliente, ref, <<>>, FALSE, MsgExtrato)
    /\ pc' = "menu"
    /\ UNCHANGED <<clientes, contas, objetos, aplicadas>>

\* exibir_extrato: menu option e
exibir_extrato(cpf) ==
    LET cliente == filtrar_cliente(cpf, clientes)
    IN  /\ pc = "menu"
        /\ IF cliente = 0
           THEN termina("e", 0, <<>>, MsgNaoEncontrado)
           ELSE IF clientes[cliente].contas = <<>>
           THEN termina("e", cliente, <<>>, MsgSemConta)
           ELSE IF Len(clientes[cliente].contas) = 1
           THEN extrato(cliente, clientes[cliente].contas[1])
           ELSE pergunta("e", cliente, <<>>)

\* the input loop of recuperar_conta_cliente returning the first account for
\* every valid answer
escolher_conta_primeira(entrada) ==
    LET escolha == int(entrada)
        cliente == ultima.cliente
    IN  /\ pc = "escolha"
        /\ IF escolha = <<>>
           THEN /\ ultima' = [ultima EXCEPT !.msg = MsgEntradaInvalida]
                /\ UNCHANGED <<clientes, contas, objetos, aplicadas, pc>>
           ELSE IF 1 <= escolha[1] /\ escolha[1] <= Len(clientes[cliente].contas)
           THEN LET ref == clientes[cliente].contas[1]
                IN  IF ultima.opcao = "e"
                    THEN extrato(cliente, ref)
                    ELSE realizar(ultima.opcao, cliente, ref,
                                  IF ultima.opcao = "s" THEN "Saque" ELSE "Deposito",
                                  ultima.valor[1])
           ELSE /\ ultima' = [ultima EXCEPT !.msg = MsgOpcaoInvalida]
                /\ UNCHANGED <<clientes, contas, objetos, aplicadas, pc>>

\* the input loop of recuperar_conta_cliente taking an answer beyond the last
\* account for the last account
escolher_conta_aproxima(entrada) ==
    LET escolha == int(entrada)
        cliente == ultima.cliente
    IN  /\ pc = "escolha"
        /\ IF escolha = <<>>
           THEN /\ ultima' = [ultima EXCEPT !.msg = MsgEntradaInvalida]
                /\ UNCHANGED <<clientes, contas, objetos, aplicadas, pc>>
           ELSE IF 1 <= escolha[1]
           THEN LET n == Len(clientes[cliente].contas)
                    ref == clientes[cliente].contas[IF escolha[1] <= n THEN escolha[1] ELSE n]
                IN  IF ultima.opcao = "e"
                    THEN extrato(cliente, ref)
                    ELSE realizar(ultima.opcao, cliente, ref,
                                  IF ultima.opcao = "s" THEN "Saque" ELSE "Deposito",
                                  ultima.valor[1])
           ELSE /\ ultima' = [ultima EXCEPT !.msg = MsgOpcaoInvalida]
                /\ UNCHANGED <<clientes, contas, objetos, aplicadas, pc>>

\* the input loop of recuperar_conta_cliente: one answer to the choice prompt,
\* and on a valid answer the rest of the action that asked
escolher_conta(entrada) ==
    LET escolha == int(entrada)
        cliente == ultima.cliente
    IN  /\ pc = "escolha"
        /\ IF escolha = <<>>
           THEN /\ ultima' = [ultima EXCEPT !.msg = MsgEntradaInvalida]
                /\ UNCHANGED <<clientes, contas, objetos, aplicadas, pc>>
           ELSE IF 1 <= escolha[1] /\ escolha[1] <= Len(clientes[cliente].contas)
           THEN LET ref == clientes[cliente].contas[escolha[1]]
                IN  IF ultima.opcao = "e"
                    THEN extrato(cliente, ref)
                    ELSE realizar(ultima.opcao, cliente, ref,
                                  IF ultima.opcao = "s" THEN "Saque" ELSE "Deposito",
                                  ultima.valor[1])
           ELSE /\ ultima' = [ultima EXCEPT !.msg = MsgOpcaoInvalida]
                /\ UNCHANGED <<clientes, contas, objetos, aplicadas, pc>>

\* criar_cliente without the lookup of the identifier
criar_cliente_sem_filtro(cpf) ==
    /\ pc = "menu"
    /\ clientes' = Append(clientes, PessoaFisica_init(cpf))
    /\ ultima' = Ultima("nu", Len(clientes'), 0, <<>>, FALSE, MsgClienteCriado)
    /\ UNCHANGED <<contas, objetos, aplicadas, pc>>

\* criar_cliente: menu option nu
criar_cliente(cpf) ==
    LET cliente == filtrar_cliente(cpf, clientes)
    IN  /\ pc = "menu"
        /\ IF cliente # 0
           THEN termina("nu", cliente, <<>>, MsgJaExiste)
           ELSE /\ clientes' = Append(clientes, PessoaFisica_init(cpf))
                /\ ultima' = Ultima("nu", Len(clientes'), 0, <<>>, FALSE, MsgClienteCriado)
                /\ UNCHANGED <<contas, objetos, aplicadas, pc>>

\* criar_conta and the nc branch of main: menu option nc
criar_conta(cpf) ==
    LET numero  == numero_conta(contas)
        cliente == filtrar_cliente(cpf, clientes)
        ref     == Len(objetos) + 1
    IN  /\ pc = "menu"
        /\ IF cliente = 0
           THEN termina("nc", 0, <<>>, MsgContaNaoCriada)
           ELSE /\ Len(objetos) < MaxContas
                /\ objetos' = Append(objetos, ContaCorrente_init(numero, cliente))
                /\ DentroDosLimites(objetos')
                /\ aplicadas' = Append(aplicadas, <<>>)
                /\ clientes' = [clientes EXCEPT ![cliente] =
                                    Cliente_adicionar_conta(@, ref)]
                /\ contas' = Append(contas, ref)
                /\ ultima' = Ultima("nc", cliente, ref, <<>>, FALSE, MsgContaCriada)
                /\ UNCHANGED pc

\* listar_contas: menu option lc
listar_contas ==
    /\ pc = "menu"
    /\ termina("lc", 0, <<>>, IF contas = <<>> THEN MsgNenhumaConta ELSE MsgLista)

\* menu option q: the loop of main ends
sair ==
    /\ pc = "menu"
    /\ ultima' = Ultima("q", 0, 0, <<>>, FALSE, MsgSaindo)
    /\ pc' = "fim"
    /\ UNCHANGED <<clientes, contas, objetos, aplicadas>>

\* any other menu text
operacao_invalida ==
    /\ pc = "menu"
    /\ termina("?", 0, <<>>, MsgOperacaoInvalida)

Next ==
    \/ \E cpf \in CPFs, texto \in EntradasDeposito : depositar(cpf, texto)
    \/ \E cpf \in CPFs, texto \in EntradasSaque : sacar(cpf, texto)
    \/ \E cpf \in CPFs : exibir_extrato(cpf)
    \/ \E entrada \in EntradasEscolha : escolher_conta(entrada)
    \/ \E cpf \in CPFs : criar_cliente(cpf)
    \/ \E cpf \in CPFs : criar_conta(cpf)
    \/ listar_contas
    \/ sair
    \/ operacao_invalida

Spec == Init /\ [][Next]_vars

(* ------------------------------- typing -------------------------------- *)

Tipos == {"Saque", "Deposito"}

TypeOK ==
    /\ pc \in {"menu", "escolha", "fim"}
    /\ pc = "escolha" => /\ ultima.opcao \in {"d", "s", "e"}
                         /\ ultima.cliente \in 1..Len(clientes)
                         /\ Len(clientes[ultima.cliente].contas) > 1
    /\ ultima.conta \in 0..Len(objetos)
    /\ Len(aplicadas) = Len(objetos)
    /\ \A i \in 1..Len(clientes) :
           /\ clientes[i].cpf \in CPFs
           /\ \A k \in 1..Len(clientes[i].contas) :
                  clientes[i].contas[k] \in 1..Len(objetos)
    /\ \A k \in 1..Len(contas) : contas[k] \in 1..Len(objetos)
    /\ \A r \in 1..Len(objetos) :
           /\ objetos[r].saldo \in Int
           /\ objetos[r].saldo # NaN
           /\ objetos[r].cliente \in 1..Len(clientes)
           /\ \A k \in 1..Len(objetos[r].historico) :
                  /\ objetos[r].historico[k].tipo \in Tipos
                  /\ objetos[r].historico[k].valor # NaN

(* ------------------------- vocabulary of the claims --------------------- *)

\* sum of the amounts of the entries of one kind
RECURSIVE Soma(_, _)
Soma(transacoes, tipo) ==
    IF transacoes = <<>> THEN 0
    ELSE (IF Head(transacoes).tipo = tipo THEN Head(transacoes).valor ELSE 0)
         + Soma(Tail(transacoes), tipo)

\* this step applied the transaction of menu option `opcao` ("d" or "s") to an account
Tentou(opcao) == ultima'.opcao = opcao /\ ultima'.conta # 0

\* the account this step's transaction was applied to, before and after it
ContaAntes  == objetos[ultima'.conta]
ContaDepois == objetos'[ultima'.conta]

\* the amount of this step's transaction
ValorTentado == ultima'.valor[1]

\* the account method called in this step returned False
Falhou == ~ultima'.retorno

\* the last action applied a transaction of option `opcao` to an account, which
\* refused it
Recusou(opcao) == ultima.opcao = opcao /\ ultima.conta # 0 /\ ~ultima.retorno

(* -------------------------------- claims ------------------------------- *)

\* C1: every account's balance is the sum of the deposits that returned success
\* minus the sum of the withdrawals that returned success, and a deposit or
\* withdrawal that returns failure leaves the balance as it was.
C1_Passo ==
    (Tentou("d") \/ Tentou("s")) /\ Falhou => ContaDepois.saldo = ContaAntes.saldo

C1_Saldo ==
    \A r \in 1..Len(objetos) :
        objetos[r].saldo = Soma(aplicadas[r], "Deposito") - Soma(aplicadas[r], "Saque")

C1_BalanceIsSumOfSuccesses == [](C1_Saldo) /\ [][C1_Passo]_vars

\* an account with two successful deposits and two successful withdrawals behind
\* it has just refused a withdrawal
C1_Witness ==
    /\ Recusou("s")
    /\ Soma(aplicadas[ultima.conta], "Deposito") = 1200
    /\ Soma(aplicadas[ultima.conta], "Saque") = 600

\* C2: no account's balance is ever negative, and a withdrawal of more than the
\* balance fails and leaves the balance as it was.
C2_Passo ==
    Tentou("s") /\ GT(ValorTentado, ContaAntes.saldo)
        => Falhou /\ ContaDepois.saldo = ContaAntes.saldo

C2_NaoNegativo == \A r \in 1..Len(objetos) : objetos[r].saldo >= 0

C2_BalanceNeverNegative == [](C2_NaoNegativo) /\ [][C2_Passo]_vars

\* an account that holds 100 has refused a withdrawal of 500 for lack of funds
C2_Witness ==
    /\ Recusou("s")
    /\ ultima.valor = <<500>>
    /\ ultima.msg = MsgSaldoInsuficiente
    /\ objetos[ultima.conta].saldo = 100

\* C3: once an account's history holds 3 withdrawals every further withdrawal
\* fails and leaves the account as it was, with the count-exceeded message for
\* every amount that passes the limit check, whatever the balance; so a history
\* never holds more than 3 withdrawals.
C3_Passo ==
    Tentou("s") /\ Len(Saques(ContaAntes.historico)) >= 3
        => /\ Falhou
           /\ objetos' = objetos
           /\ (~GT(ValorTentado, 500) => ultima'.msg = MsgExcedeSaques)

C3_NoMaximoTres ==
    \A r \in 1..Len(objetos) : Len(Saques(objetos[r].historico)) <= 3

C4_Passo ==
    Tentou("s") /\ GT(ValorTentado, 500)
        => /\ Falhou
           /\ ultima'.msg = MsgExcedeLimite
           /\ objetos' = objetos

C4_SaquesNoLimite ==
    \A r \in 1..Len(objetos) :
        \A k \in 1..Len(objetos[r].historico) :
            objetos[r].historico[k].tipo = "Saque"
                => objetos[r].historico[k].valor <= 500

C4_OverLimitRefused == [](C4_SaquesNoLimite) /\ [][C4_Passo]_vars

\* an account that holds 600 or more has refused a withdrawal of 600 for the limit
C4_Witness ==
    /\ Recusou("s")
    /\ ultima.valor = <<600>>
    /\ ultima.msg = MsgExcedeLimite
    /\ objetos[ultima.conta].saldo >= 600

\* C5: every account's history is the sequence of the transactions that returned
\* success, in the order they were applied, each with its kind and amount; a
\* transaction that returns failure adds no entry and changes nothing else.
C5_Passo ==
    (Tentou("d") \/ Tentou("s")) /\ Falhou
        => UNCHANGED <<objetos, clientes, contas>>

C5_Historico ==
    \A r \in 1..Len(objetos) : objetos[r].historico = aplicadas[r]

C5_HistoryIsSuccesses == [](C5_Historico) /\ [][C5_Passo]_vars

\* an account whose history holds a deposit and two withdrawals has just refused
\* a deposit
C5_Witness ==
    /\ Recusou("d")
    /\ Len(objetos[ultima.conta].historico) = 3
    /\ Len(Saques(objetos[ultima.conta].historico)) = 2

\* C6: a deposit or a withdrawal of 0 or of a negative amount fails, in every
\* state of the account, and changes no customer and no account.
C6_Passo ==
    (Tentou("d") \/ Tentou("s")) /\ ValorTentado # NaN /\ ValorTentado <= 0
        => Falhou /\ UNCHANGED <<objetos, clientes, contas>>

C6_NonPositiveRejected == [][C6_Passo]_vars

\* an account that holds money has just refused a deposit of a negative amount
C6_Witness ==
    /\ Recusou("d")
    /\ ultima.valor = <<-100>>
    /\ objetos[ultima.conta].saldo > 0
    /\ objetos[ultima.conta].historico # <<>>

\* C7: in every step every account's history stays as it is or gets exactly one
\* entry appended at its end, and no account disappears.
C7_Passo ==
    /\ Len(objetos') >= Len(objetos)
    /\ \A r \in 1..Len(objetos) :
           LET h == objetos[r].historico
               n == objetos'[r].historico
           IN  \/ n = h
               \/ /\ Len(n) = Len(h) + 1
                  /\ SubSeq(n, 1, Len(h)) = h

C7_HistoryAppendOnly == [][C7_Passo]_vars

\* a history that has grown three times, with entries of both kinds
C7_Witness ==
    \E r \in 1..Len(objetos) :
        /\ Len(objetos[r].historico) >= 3
        /\ objetos[r].historico[1].tipo = "Deposito"
        /\ objetos[r].historico[Len(objetos[r].historico)].tipo = "Saque"

\* C8: the k-th account created has number k, so the numbers start at 1, grow and
\* are pairwise distinct; a "new account" that does not find the customer creates
\* no account, and the next account created still gets the next number.
C8_Passo ==
    /\ ultima'.opcao = "nc" /\ ultima'.conta = 0
           => /\ ultima'.msg = MsgContaNaoCriada
              /\ UNCHANGED <<contas, objetos, clientes>>
    /\ ultima'.opcao = "nc" /\ ultima'.conta # 0
           => /\ Len(contas') = Len(contas) + 1
              /\ SubSeq(contas', 1, Len(contas)) = contas
              /\ contas'[Len(contas')] = ultima'.conta
              /\ objetos'[ultima'.conta].numero = Len(contas) + 1
    /\ \A cpf \in CPFs :
           /\ ultima'.opcao = "nc"
           /\ \A i \in 1..Len(clientes) : clientes[i].cpf # cpf
           /\ criar_conta(cpf)
           => ultima'.conta = 0

C8_Numeros ==
    /\ \A k \in 1..Len(contas) : objetos[contas[k]].numero = k
    /\ \A j, k \in 1..Len(objetos) :
           j # k => objetos[j].numero # objetos[k].numero

C8_AccountNumbersSequential == [](C8_Numeros) /\ [][C8_Passo]_vars

\* two accounts exist and a "new account" for an unknown customer has just failed
C8_Witness ==
    /\ Len(contas) = 2
    /\ ultima.opcao = "nc" /\ ultima.msg = MsgContaNaoCriada

\* C9: a "new customer" with an identifier that is already there fails and leaves
\* the customer list as it was; one that succeeds appends one customer whose
\* identifier no customer had; so no two customers share an identifier, and no
\* step removes a customer or changes one's identifier.
C9_Passo ==
    /\ Len(clientes') >= Len(clientes)
    /\ \A i \in 1..Len(clientes) : clientes'[i].cpf = clientes[i].cpf
    /\ Len(clientes') # Len(clientes)
           => /\ ultima'.opcao = "nu"
              /\ ultima'.msg = MsgClienteCriado
              /\ Len(clientes') = Len(clientes) + 1
              /\ \A i \in 1..Len(clientes) :
                     clientes[i].cpf # clientes'[Len(clientes')].cpf
    /\ \A cpf \in CPFs :
           /\ ultima'.opcao = "nu"
           /\ \E i \in 1..Len(clientes) : clientes[i].cpf = cpf
           /\ criar_cliente(cpf)
           => ultima'.msg = MsgJaExiste /\ clientes' = clientes

C9_CpfsDistintos ==
    \A i, j \in 1..Len(clientes) : i # j => clientes[i].cpf # clientes[j].cpf

C9_DuplicateCustomerRejected == [](C9_CpfsDistintos) /\ [][C9_Passo]_vars

\* two customers exist and a "new customer" with the identifier of the second has
\* just been refused
C9_Witness ==
    /\ Len(clientes) = 2
    /\ ultima.opcao = "nu" /\ ultima.msg = MsgJaExiste /\ ultima.cliente = 2

\* C10: a withdrawal that exceeds the limit, made on an account whose history
\* already holds the maximum number of withdrawals, reports limit-exceeded and
\* not count-exceeded.
C10_Passo ==
    /\ Tentou("s")
    /\ GT(ValorTentado, ContaAntes._limite)
    /\ Len(Saques(ContaAntes.historico)) >= ContaAntes._limite_saques
    => ultima'.msg = MsgExcedeLimite

C10_LimitCheckedBeforeCount == [][C10_Passo]_vars

\* an account that has made its 3 withdrawals has refused a withdrawal of 600 for
\* the limit
C10_Witness ==
    /\ Recusou("s")
    /\ ultima.valor = <<600>>
    /\ ultima.msg = MsgExcedeLimite
    /\ Len(Saques(objetos[ultima.conta].historico)) = 3

\* C11: every account has one owner, a customer of the registry, fixed when the
\* account is created: an account is only created for a customer that was
\* already there, its owner never changes, every account of the global list is
\* once in the list of its owner and in no other customer's list, and every
\* account of a customer's list is in the global list.
C11_Posicoes(ref) ==
    {p \in (1..Len(clientes)) \X (1..MaxContas + 1) :
         p[2] <= Len(clientes[p[1]].contas) /\ clientes[p[1]].contas[p[2]] = ref}

C11_Passo ==
    /\ \A r \in 1..Len(objetos) : objetos'[r].cliente = objetos[r].cliente
    /\ Len(objetos') # Len(objetos)
           => /\ Len(objetos') = Len(objetos) + 1
              /\ Len(clientes') = Len(clientes)
              /\ objetos'[Len(objetos')].cliente \in 1..Len(clientes)
              /\ objetos'[Len(objetos')].cliente = ultima'.cliente

C11_Dono ==
    /\ \A k \in 1..Len(contas) :
           /\ \A j \in 1..Len(contas) : contas[j] = contas[k] => j = k
           /\ objetos[contas[k]].cliente \in 1..Len(clientes)
           /\ Cardinality(C11_Posicoes(contas[k])) = 1
           /\ \A p \in C11_Posicoes(contas[k]) : p[1] = objetos[contas[k]].cliente
    /\ \A i \in 1..Len(clientes) : \A k \in 1..Len(clientes[i].contas) :
           \E j \in 1..Len(contas) : contas[j] = clientes[i].contas[k]
    /\ \A r \in 1..Len(objetos) : \E j \in 1..Len(contas) : contas[j] = r

C11_OneOwnerPerAccount == [](C11_Dono) /\ [][C11_Passo]_vars

\* the second customer of the registry owns both accounts
C11_Witness ==
    /\ Len(clientes) = 2
    /\ Len(contas) = 2
    /\ Len(clientes[2].contas) = 2
    /\ clientes[1].contas = <<>>

\* C12: an input the program rejects changes nothing: a non-numeric amount, a
\* customer identifier that is not registered (deposit, withdrawal, statement,
\* new account), a deposit, withdrawal or statement for a customer without
\* accounts, an account choice that is not a number or is out of range, and an
\* unknown menu option each leave the customer list, the account list and every
\* account's balance and history as they were.
C12_Igual == UNCHANGED <<clientes, contas, objetos>>

C12_SemCliente(cpf) == filtrar_cliente(cpf, clientes) = 0

C12_SemConta(cpf) ==
    \/ C12_SemCliente(cpf)
    \/ clientes[filtrar_cliente(cpf, clientes)].contas = <<>>

C12_EscolhaRecusada(entrada) ==
    \/ int(entrada) = <<>>
    \/ int(entrada)[1] < 1
    \/ int(entrada)[1] > Len(clientes[ultima.cliente].contas)

C12_Recusado ==
    \/ \E cpf \in CPFs, texto \in EntradasDeposito :
           pc = "menu" /\ (float(texto) = <<>> \/ C12_SemConta(cpf))
               /\ depositar(cpf, texto)
    \/ \E cpf \in CPFs, texto \in EntradasSaque :
           pc = "menu" /\ (float(texto) = <<>> \/ C12_SemConta(cpf))
               /\ sacar(cpf, texto)
    \/ \E cpf \in CPFs :
           pc = "menu" /\ C12_SemConta(cpf) /\ exibir_extrato(cpf)
    \/ \E cpf \in CPFs :
           pc = "menu" /\ C12_SemCliente(cpf) /\ criar_conta(cpf)
    \/ \E entrada \in EntradasEscolha :
           pc = "escolha" /\ C12_EscolhaRecusada(entrada) /\ escolher_conta(entrada)
    \/ pc = "menu" /\ operacao_invalida

\* no step that changes anything is the step of a rejected input
C12_Passo == C12_Igual \/ ~C12_Recusado

C12_RejectedInputChangesNothing == [][C12_Passo]_vars

\* an out-of-range account choice was just refused for a pending withdrawal,
\* while an account of the customer holds a deposit
C12_Witness ==
    /\ pc = "escolha"
    /\ ultima.opcao = "s"
    /\ ultima.msg = MsgOpcaoInvalida
    /\ \E k \in 1..Len(clientes[ultima.cliente].contas) :
           objetos[clientes[ultima.cliente].contas[k]].saldo = 600

\* C13: no error of the domain ends the process: after "customer not found",
\* "customer already exists", "customer has no account", an invalid amount,
\* insufficient funds, the withdrawal limit or the withdrawal count exceeded,
\* control is back at the menu prompt, where the menu's actions are accepted;
\* the only step into the terminated state is the quit option at the menu.
C13_Erros ==
    {MsgNaoEncontrado, MsgContaNaoCriada, MsgJaExiste, MsgSemConta,
     MsgValorInvalido, MsgDepositoCancelado, MsgSaqueCancelado,
     MsgSaldoInsuficiente, MsgExcedeLimite, MsgExcedeSaques}

C13_Passo ==
    /\ ultima'.msg \in C13_Erros => pc' = "menu"
    /\ pc' = "fim" => pc = "menu" /\ ultima'.opcao = "q" /\ sair

C13_MenuAceita ==
    pc = "menu" =>
        /\ ENABLED sair
        /\ ENABLED operacao_invalida
        /\ ENABLED listar_contas
        /\ \A cpf \in CPFs : ENABLED criar_cliente(cpf) /\ ENABLED exibir_extrato(cpf)
        /\ \A cpf \in CPFs : ENABLED depositar(cpf, "abc") /\ ENABLED sacar(cpf, "abc")

C13_ErrorsReturnToMenu == [](C13_MenuAceita) /\ [][C13_Passo]_vars

\* the fourth withdrawal of an account was just refused and the menu is back
C13_Witness ==
    /\ pc = "menu"
    /\ ultima.msg = MsgExcedeSaques
    /\ ENABLED sair

\* C14: a deposit or withdrawal looks the customer up, then selects the
\* account, then builds the transaction from the amount, then applies it; so
\* for a registered customer without accounts the action ends with "customer
\* has no account" and no amount has been read or parsed.
C14_Passo ==
    /\ pc = "menu"
    /\ ultima'.opcao \in {"d", "s"}
    /\ ultima'.cliente # 0
    /\ clientes[ultima'.cliente].contas = <<>>
    => /\ ultima'.msg = MsgSemConta
       /\ ultima'.valor = <<>>

C14_AccountSelectedBeforeAmount == [][C14_Passo]_vars

\* C15: the two checks of the checking account come before the rule of the
\* base account: a withdrawal above both the limit and the balance reports
\* limit-exceeded, not insufficient funds; once the history holds the maximum
\* number of withdrawals, a withdrawal within the limit reports count-exceeded
\* also when the amount is above the balance or is not positive; in both cases
\* the account is left as it was.
C15_Passo ==
    Tentou("s") =>
        /\ (GT(ValorTentado, limite) /\ GT(ValorTentado, ContaAntes.saldo))
               => (/\ Falhou
                   /\ ultima'.msg = MsgExcedeLimite
                   /\ ContaDepois = ContaAntes)
        /\ (/\ Len(Saques(ContaAntes.historico)) >= limite_saques
            /\ ~GT(ValorTentado, limite)
            /\ (GT(ValorTentado, ContaAntes.saldo) \/ ~GT(ValorTentado, 0)))
               => (/\ Falhou
                   /\ ultima'.msg = MsgExcedeSaques
                   /\ ContaDepois = ContaAntes)

C16_SaquesAplicados(ref) ==
    Cardinality({i \in 1..Len(aplicadas[ref]) : aplicadas[ref][i].tipo = "Saque"})

C16_Entradas(transacoes) ==
    Cardinality({i \in 1..Len(transacoes) : transacoes[i].tipo = "Saque"})

C16_Contagem ==
    \A r \in 1..Len(objetos) :
        /\ Len(Saques(objetos[r].historico)) = C16_Entradas(objetos[r].historico)
        /\ C16_Entradas(objetos[r].historico) = C16_SaquesAplicados(r)

C16_Passo ==
    /\ (Tentou("s") /\ Falhou) \/ Tentou("d")
           => C16_Entradas(ContaDepois.historico) = C16_Entradas(ContaAntes.historico)
    /\ (/\ Tentou("s")
        /\ C16_SaquesAplicados(ultima'.conta) < limite_saques
        /\ GT(ValorTentado, 0)
        /\ ValorTentado <= ContaAntes.saldo
        /\ ValorTentado <= limite)
           => (/\ ultima'.retorno
               /\ ContaDepois.saldo = ContaAntes.saldo - ValorTentado
               /\ C16_Entradas(ContaDepois.historico)
                      = C16_Entradas(ContaAntes.historico) + 1)

C16_OnlySuccessesCount == [](C16_Contagem) /\ [][C16_Passo]_vars

\* the third withdrawal of an account succeeded after two deposits
C16_Witness ==
    /\ ultima.opcao = "s" /\ ultima.conta # 0 /\ ultima.retorno
    /\ Len(objetos[ultima.conta].historico) = 5
    /\ C16_SaquesAplicados(ultima.conta) = 3

\* C17: a deposit or withdrawal made from the menu acts on the account the
\* operator selected, counting the customer's accounts from 1, and changes
\* nothing else: every other account, the customer list and the account list
\* stay as they were; a customer with exactly one account gets that account
\* without being asked, and only a customer with several accounts is asked.
C17_Passo ==
    /\ Tentou("d") \/ Tentou("s")
           => /\ \E k \in 1..Len(clientes[ultima'.cliente].contas) :
                     clientes[ultima'.cliente].contas[k] = ultima'.conta
              /\ \A r \in 1..Len(objetos) : r # ultima'.conta => objetos'[r] = objetos[r]
              /\ Len(objetos') = Len(objetos)
              /\ UNCHANGED <<clientes, contas>>
    /\ pc = "menu" /\ (Tentou("d") \/ Tentou("s"))
           => /\ Len(clientes[ultima'.cliente].contas) = 1
              /\ ultima'.conta = clientes[ultima'.cliente].contas[1]
    /\ pc = "menu" /\ pc' = "escolha"
           => Len(clientes[ultima'.cliente].contas) > 1
    /\ pc = "escolha" /\ ultima.opcao \in {"d", "s"}
           => \A entrada \in EntradasEscolha :
                  ~C12_EscolhaRecusada(entrada)
                      => \/ /\ ultima'.opcao = ultima.opcao
                            /\ ultima'.conta = clientes[ultima.cliente].contas[int(entrada)[1]]
                            /\ ultima'.valor = ultima.valor
                         \/ ~escolher_conta(entrada)

C17_OnlySelectedAccountChanges == [][C17_Passo]_vars

\* a transaction succeeded on the second account of a customer whose first
\* account holds a deposit
C17_Witness ==
    /\ ultima.opcao \in {"d", "s"} /\ ultima.conta # 0 /\ ultima.retorno
    /\ Len(clientes[ultima.cliente].contas) = 2
    /\ ultima.conta = clientes[ultima.cliente].contas[2]
    /\ objetos[clientes[ultima.cliente].contas[1]].saldo = 600

\* C18: the boundary amounts are accepted. On an account whose history holds
\* fewer than 3 withdrawals, a withdrawal of a positive amount equal to the
\* balance succeeds and leaves the balance 0, a withdrawal of exactly the limit
\* of 500 succeeds when the balance is at least 500, and a positive amount is
\* rejected only when it is strictly above the balance or strictly above the
\* limit (so an amount equal to a balance above the limit is rejected for the
\* limit).
C18_Passo ==
    (Tentou("s") /\ Len(Saques(ContaAntes.historico)) < limite_saques) =>
        /\ (/\ GT(ValorTentado, 0)
            /\ ValorTentado = ContaAntes.saldo
            /\ ValorTentado <= limite)
               => (ultima'.retorno /\ ContaDepois.saldo = 0)
        /\ (ValorTentado = limite /\ ContaAntes.saldo >= limite)
               => (ultima'.retorno /\ ContaDepois.saldo = ContaAntes.saldo - limite)
        /\ (GT(ValorTentado, 0) /\ Falhou)
               => (GT(ValorTentado, ContaAntes.saldo) \/ GT(ValorTentado, limite))
        /\ (GT(ValorTentado, 0) /\ ValorTentado = ContaAntes.saldo /\ Falhou)
               => ultima'.msg = MsgExcedeLimite

C19_Passo ==
    (Tentou("d") /\ GT(ValorTentado, 0)) =>
        /\ ultima'.retorno
        /\ ultima'.msg = MsgDepositoOk
        /\ ContaDepois.saldo = ContaAntes.saldo + ValorTentado
        /\ Len(ContaDepois.historico) = Len(ContaAntes.historico) + 1
        /\ SubSeq(ContaDepois.historico, 1, Len(ContaAntes.historico)) = ContaAntes.historico
        /\ ContaDepois.historico[Len(ContaDepois.historico)].tipo = "Deposito"
        /\ ContaDepois.historico[Len(ContaDepois.historico)].valor = ValorTentado
        /\ ContaDepois = [ContaAntes EXCEPT !.saldo = ContaDepois.saldo,
                                            !.historico = ContaDepois.historico]

C19_PositiveDepositSucceeds == [][C19_Passo]_vars

\* a deposit of 600, above the limit of 500, succeeded on an account whose
\* history already held 3 withdrawals
C19_Witness ==
    /\ ultima.opcao = "d" /\ ultima.conta # 0 /\ ultima.retorno
    /\ ultima.valor = <<600>>
    /\ Len(Saques(objetos[ultima.conta].historico)) = 3
    /\ objetos[ultima.conta].historico[Len(objetos[ultima.conta].historico)].tipo = "Deposito"

====
